---- MODULE Spec2Model ----
(***************************************************************************)
(* Model of the CropImagePro class (crop-image-pro): the crop region and   *)
(* its drag / resize handlers, the aspect lock, the open() session with    *)
(* its Cancel / Save handlers, and the export size computation.            *)
(*                                                                         *)
(* Lengths are CSS pixels.  The code computes in IEEE doubles; the model   *)
(* computes in exact arithmetic: layout sizes and pointer positions range  *)
(* over grids on which every multiplication by 0.9 and every division by   *)
(* the aspect ratio is exact, so integers carry the display-space values,  *)
(* and the export sizes are exact fractions [n, d].                        *)
(***************************************************************************)
EXTENDS Integers, Sequences, FiniteSets, TLC

(***************************************************************************)
(* Bounds of the model.                                                    *)
(***************************************************************************)
\* pointer positions are 40 * (0..MaxPtr) on both axes
MaxPtr == 1
\* at most this many mousemove events are followed while a gesture is active
MaxMoves == 2
\* at most this many Save clicks are followed in one session
MaxSaves == 2

Max(a, b) == IF a >= b THEN a ELSE b
Min(a, b) == IF a <= b THEN a ELSE b

(***************************************************************************)
(* Exact fractions, for the export arithmetic (naturalWidth / image.width  *)
(* is rarely an integer).                                                  *)
(***************************************************************************)
RECURSIVE Gcd(_, _)
Gcd(a, b) == IF b = 0 THEN a ELSE Gcd(b, a % b)

Frac(n, d) ==
    LET g == Gcd(IF n < 0 THEN -n ELSE n, d)
    IN  IF g = 0 THEN [n |-> 0, d |-> 1] ELSE [n |-> n \div g, d |-> d \div g]
FInt(i) == [n |-> i, d |-> 1]
FMul(p, q) == Frac(p.n * q.n, p.d * q.d)
FDiv(p, q) == Frac(p.n * q.d, p.d * q.n)
FGt(p, q) == p.n * q.d > q.n * p.d
FMin(p, q) == IF FGt(p, q) THEN q ELSE p
\* conversion of a double to the unsigned long of canvas.width / height
Trunc(p) == p.n \div p.d

(***************************************************************************)
(* State.                                                                  *)
(***************************************************************************)
VARIABLES
    geom,          \* layout of the loaded <img> in its wrapper, and its natural size
    context2d,     \* whether canvas.getContext("2d") yields a context for this canvas
    options,       \* this.options: aspectRatio (aspectNum/aspectDen), maxOutputSize, circularCrop
    fileName,      \* this.fileName
    openPc,        \* position of open(): "start", "awaitLoad", "done", "caught"
    container,     \* this.container: "null", "attached" (in document.body), "detached"
    imgElement,    \* this.imgElement: "null", "created" (decoding), "loaded", "broken"
    crop,          \* this.crop
    scale,         \* this.scale, in tenths
    rotate,        \* this.rotate, in degrees
    transform,     \* imgElement.style.transform: the scale (tenths) and rotation applied
    isFixedAspect, \* this.isFixedAspect
    isDragging,    \* this.isDragging
    isResizing,    \* this.isResizing
    resizeHandle,  \* this.resizeHandle
    dragStart,     \* this.dragStart
    moves,         \* mousemove events handled during a gesture so far
    borderRadius,  \* style.borderRadius of the crop overlay; "": never set
    promise,       \* the promise open() returned: state and rejection error
    settleCalls,   \* calls of that promise's resolve / reject so far
    docListeners,  \* listeners this session has registered on document
    saveClicks,    \* Save clicks handled so far
    encodeQueue,   \* canvas.toBlob callbacks not yet run; TRUE: a blob will be passed
    canvas,        \* this.canvas width / height
    outSize,       \* outWidth / outHeight of the last handleSave, with its crop size
    results,       \* CropResult objects (object URL + File) constructed so far
    lastResult     \* the CropResult constructed last

cropVars    == <<crop, isFixedAspect, isDragging, isResizing, resizeHandle, dragStart, moves,
                 borderRadius>>
viewVars    == <<scale, rotate, transform>>
sessionVars == <<openPc, container, imgElement, promise, settleCalls, docListeners>>
saveVars    == <<saveClicks, encodeQueue, canvas, outSize, results, lastResult>>
configVars  == <<geom, context2d, options, fileName>>
vars == <<configVars, sessionVars, cropVars, viewVars, saveVars>>

Handles == {"nw", "ne", "sw", "se", "n", "s", "e", "w"}

\* handle.includes(c)
Includes(handle, c) ==
    CASE handle = "nw" -> c \in {"n", "w"}
      [] handle = "ne" -> c \in {"n", "e"}
      [] handle = "sw" -> c \in {"s", "w"}
      [] handle = "se" -> c \in {"s", "e"}
      [] OTHER         -> handle = c

\* clientX / clientY of the mouse events
PointerPos == {[x |-> 40 * i, y |-> 40 * j] : i \in 0..MaxPtr, j \in 0..MaxPtr}

(***************************************************************************)
(* DOM lookups.                                                            *)
(***************************************************************************)
\* document.getElementById("crop-image-wrapper") / ("crop-overlay") finds the
\* element only while the modal that holds it is in the document
WrapperInDocument == container = "attached" /\ imgElement # "null"

\* imgElement.getBoundingClientRect() relative to wrapper.getBoundingClientRect():
\* the box of the image under its CSS transform scale(s) rotate(r) about its
\* centre; an image that has not loaded has an empty box
ImgRect(img, s, r) ==
    IF img # "loaded"
    THEN [left |-> geom.offsetX + geom.width \div 2, top |-> geom.offsetY,
          width |-> 0, height |-> 0]
    ELSE LET turned == r \in {90, 270}
             w == ((IF turned THEN geom.height ELSE geom.width) * s) \div 10
             h == ((IF turned THEN geom.width ELSE geom.height) * s) \div 10
         IN  [left   |-> geom.offsetX + (geom.width - w) \div 2,
              top    |-> geom.offsetY + (geom.height - h) \div 2,
              width  |-> w, height |-> h]

\* the rectangle c lies inside the box rect
InBounds(c, rect) ==
    /\ c.x >= rect.left
    /\ c.y >= rect.top
    /\ c.x + c.width <= rect.left + rect.width
    /\ c.y + c.height <= rect.top + rect.height

(***************************************************************************)
(* initializeCrop                                                          *)
(***************************************************************************)
\* InitialCrop placed at the top left corner of the image
InitialCropTopLeft(rect, num, den) ==
    LET w0 == (rect.width * 9) \div 10
        h0 == (w0 * den) \div num
        tooHigh == h0 * 10 > rect.height * 9
        cropHeight == IF tooHigh THEN (rect.height * 9) \div 10 ELSE h0
        cropWidth  == IF tooHigh THEN (cropHeight * num) \div den ELSE w0
    IN  [x |-> rect.left, y |-> rect.top, width |-> cropWidth, height |-> cropHeight]

\* InitialCrop without the fallback to 90% of the height
InitialCropWidthOnly(rect, num, den) ==
    LET cropWidth  == (rect.width * 9) \div 10
        cropHeight == (cropWidth * den) \div num
    IN  [x |-> rect.left + (rect.width - cropWidth) \div 2,
         y |-> rect.top + (rect.height - cropHeight) \div 2,
         width |-> cropWidth, height |-> cropHeight]

\* lines 648-664: the centred region of 90% of the image, fitted to num / den
InitialCrop(rect, num, den) ==
    LET w0 == (rect.width * 9) \div 10
        h0 == (w0 * den) \div num
        tooHigh == h0 * 10 > rect.height * 9
        cropHeight == IF tooHigh THEN (rect.height * 9) \div 10 ELSE h0
        cropWidth  == IF tooHigh THEN (cropHeight * num) \div den ELSE w0
    IN  [x |-> rect.left + (rect.width - cropWidth) \div 2,
         y |-> rect.top + (rect.height - cropHeight) \div 2,
         width |-> cropWidth, height |-> cropHeight]

\* overlay.style.borderRadius after updateCropOverlay() with the lock at fixed
updateCropOverlay(fixed) ==
    IF ~WrapperInDocument
    THEN borderRadius
    ELSE IF options.circularCrop /\ fixed /\ options.aspectNum = options.aspectDen
    THEN "50%"
    ELSE "0"

\* the value of this.crop after initializeCrop()
initializeCrop(img) ==
    IF img = "null" \/ container # "attached"
    THEN crop
    ELSE InitialCrop(ImgRect(img, transform.scale, transform.rotate), options.aspectNum, options.aspectDen)

(***************************************************************************)
(* handleDrag / handleResize                                               *)
(***************************************************************************)
\* DragTo without the clamps to the image box
DragToUnclamped(c, rect, start, e) ==
    [c EXCEPT !.x = e.x - start.x, !.y = e.y - start.y]

\* lines 752-767: the region moved to the pointer e, kept inside the box rect
DragTo(c, rect, start, e) ==
    LET newX == Max(rect.left, Min(e.x - start.x, rect.left + rect.width - c.width))
        newY == Max(rect.top, Min(e.y - start.y, rect.top + rect.height - c.height))
    IN  [c EXCEPT !.x = newX, !.y = newY]

handleDrag(e) ==
    IF imgElement = "null" \/ ~WrapperInDocument
    THEN crop
    ELSE DragTo(crop, ImgRect(imgElement, transform.scale, transform.rotate), dragStart, e)

\* step 1 of handleResize: the raw size and position for the handle
RawResize(c, handle, deltaX, deltaY) ==
    LET w == IF Includes(handle, "e") THEN c.width + deltaX
             ELSE IF Includes(handle, "w") THEN c.width - deltaX ELSE c.width
        x == IF ~Includes(handle, "e") /\ Includes(handle, "w")
             THEN c.x + deltaX ELSE c.x
        h == IF Includes(handle, "s") THEN c.height + deltaY
             ELSE IF Includes(handle, "n") THEN c.height - deltaY ELSE c.height
        y == IF ~Includes(handle, "s") /\ Includes(handle, "n")
             THEN c.y + deltaY ELSE c.y
    IN  [x |-> x, y |-> y, width |-> w, height |-> h]

\* ApplyAspect in which a handle with n or s takes the height as the driver
ApplyAspectHeightFirst(r, handle, fixed, num, den) ==
    IF ~fixed THEN r
    ELSE IF Includes(handle, "n") \/ Includes(handle, "s")
         THEN [r EXCEPT !.width = (r.height * num) \div den]
    ELSE IF Includes(handle, "e") \/ Includes(handle, "w")
         THEN [r EXCEPT !.height = (r.width * den) \div num]
    ELSE r

\* step 2: the aspect ratio constraint
ApplyAspect(r, handle, fixed, num, den) ==
    IF ~fixed THEN r
    ELSE IF Includes(handle, "e") \/ Includes(handle, "w")
         THEN [r EXCEPT !.height = (r.width * den) \div num]
    ELSE IF Includes(handle, "n") \/ Includes(handle, "s")
         THEN [r EXCEPT !.width = (r.height * num) \div den]
    ELSE r

\* step 3: the clamps to the minimum size and to the image box
MinCropSize == 50

\* ClampResize with the Math.max(50, ...) of the width left out
ClampResizeNoMinimum(r, rect) ==
    LET maxWidth  == rect.left + rect.width - r.x
        maxHeight == rect.top + rect.height - r.y
        newWidth  == Min(r.width, maxWidth)
        newHeight == Max(MinCropSize, Min(r.height, maxHeight))
        newX == Max(rect.left, Min(r.x, rect.left + rect.width - newWidth))
        newY == Max(rect.top, Min(r.y, rect.top + rect.height - newHeight))
    IN  [x |-> newX, y |-> newY, width |-> newWidth, height |-> newHeight]

ClampResize(r, rect) ==
    LET maxWidth  == rect.left + rect.width - r.x
        maxHeight == rect.top + rect.height - r.y
        newWidth  == Max(MinCropSize, Min(r.width, maxWidth))
        newHeight == Max(MinCropSize, Min(r.height, maxHeight))
        newX == Max(rect.left, Min(r.x, rect.left + rect.width - newWidth))
        newY == Max(rect.top, Min(r.y, rect.top + rect.height - newHeight))
    IN  [x |-> newX, y |-> newY, width |-> newWidth, height |-> newHeight]

ResizeTo(c, rect, handle, fixed, num, den, start, e) ==
    ClampResize(
        ApplyAspect(RawResize(c, handle, e.x - start.x, e.y - start.y),
                    handle, fixed, num, den),
        rect)

\* the region after the mousemove events at the positions of path, in a resize
\* with the given handle whose dragStart is start: every move resizes by the
\* delta since dragStart and then sets dragStart to its own position
RECURSIVE ResizeAlong(_, _, _, _, _, _, _, _)
ResizeAlong(c, rect, handle, fixed, num, den, start, path) ==
    IF path = <<>>
    THEN c
    ELSE ResizeAlong(ResizeTo(c, rect, handle, fixed, num, den, start, Head(path)),
                     rect, handle, fixed, num, den, Head(path), Tail(path))

handleResize(e) ==
    IF imgElement = "null" \/ ~WrapperInDocument
    THEN crop
    ELSE ResizeTo(crop, ImgRect(imgElement, transform.scale, transform.rotate), resizeHandle, isFixedAspect,
                  options.aspectNum, options.aspectDen, dragStart, e)

(***************************************************************************)
(* Construction.                                                           *)
(***************************************************************************)
\* the constructor: options.aspectRatio ?? 1, options.maxOutputSize ?? 1200, ...
ResolveOptions(arg) ==
    [aspectNum     |-> IF arg.aspectRatio.defined THEN arg.aspectRatio.num ELSE 1,
     aspectDen     |-> IF arg.aspectRatio.defined THEN arg.aspectRatio.den ELSE 1,
     maxOutputSize |-> IF arg.maxOutputSize = 0 THEN 1200 ELSE arg.maxOutputSize,
     circularCrop  |-> arg.circularCrop]

Ratio(num, den) == [defined |-> TRUE, num |-> num, den |-> den]
NoRatio == [defined |-> FALSE, num |-> 0, den |-> 1]
\* an options argument; maxOutputSize 0 stands for an omitted maxOutputSize
Arg(ratio, maxOut, circular) ==
    [aspectRatio |-> ratio, maxOutputSize |-> maxOut, circularCrop |-> circular]

\* a layout of the loaded image: its box in the wrapper and its natural size
Layout(w, h, ox, oy, nw, nh) ==
    [width |-> w, height |-> h, offsetX |-> ox, offsetY |-> oy,
     naturalWidth |-> nw, naturalHeight |-> nh]

\* this session has not constructed a CropResult
NoResult == [made |-> FALSE]

\* the fields of a freshly constructed CropImagePro(file, name, arg)
ConstructedNamed(layout, arg, hasContext, name) ==
    /\ geom = layout
    /\ context2d = hasContext
    /\ options = ResolveOptions(arg)
    /\ fileName = name
    /\ openPc = "start"
    /\ container = "null"
    /\ imgElement = "null"
    /\ crop = [x |-> 0, y |-> 0, width |-> 0, height |-> 0]
    /\ scale = 10
    /\ rotate = 0
    /\ transform = [scale |-> 10, rotate |-> 0]
    /\ isFixedAspect = TRUE
    /\ isDragging = FALSE
    /\ isResizing = FALSE
    /\ resizeHandle = ""
    /\ dragStart = [x |-> 0, y |-> 0]
    /\ moves = 0
    /\ borderRadius = ""
    /\ promise = [state |-> "pending", error |-> "none"]
    /\ settleCalls = 0
    /\ docListeners = 0
    /\ saveClicks = 0
    /\ encodeQueue = <<>>
    /\ canvas = [width |-> 0, height |-> 0]
    /\ outSize = [called |-> FALSE]
    /\ results = 0
    /\ lastResult = NoResult

Constructed(layout, arg, hasContext) == ConstructedNamed(layout, arg, hasContext, "image")

(***************************************************************************)
(* open(), loadImage() and the image element.                              *)
(***************************************************************************)
\* resolve(value) / reject(error) of the promise open() returned
Settle(p, state, error) ==
    IF p.state = "pending" THEN [state |-> state, error |-> error] ELSE p

\* open() up to "await this.loadImage()": the modal is built and attached
Open ==
    /\ openPc = "start"
    /\ openPc' = "awaitLoad"
    /\ container' = "attached"
    /\ UNCHANGED <<imgElement, promise, settleCalls, docListeners>>
    /\ UNCHANGED <<configVars, cropVars, viewVars, saveVars>>

\* loadImage() resolved: showImageContent() builds the image and the overlay,
\* setupCropInteraction() adds the mousemove and mouseup listeners to document
LoadImageResolved ==
    /\ openPc = "awaitLoad"
    /\ openPc' = "done"
    /\ imgElement' = "created"
    /\ docListeners' = docListeners + 2
    /\ UNCHANGED <<container, promise, settleCalls>>
    /\ UNCHANGED <<configVars, cropVars, viewVars, saveVars>>

\* loadImage() rejected (heic2any or the FileReader failed): catch, reject(error)
LoadImageRejected ==
    /\ openPc = "awaitLoad"
    /\ openPc' = "caught"
    /\ promise' = Settle(promise, "rejected", "LoadError")
    /\ settleCalls' = settleCalls + 1
    /\ UNCHANGED <<container, imgElement, docListeners>>
    /\ UNCHANGED <<configVars, cropVars, viewVars, saveVars>>

\* imgElement.onload: initializeCrop()
ImgOnload ==
    /\ imgElement = "created"
    /\ imgElement' = "loaded"
    /\ crop' = initializeCrop("loaded")
    /\ borderRadius' = updateCropOverlay(isFixedAspect)
    /\ UNCHANGED <<isFixedAspect, isDragging, isResizing, resizeHandle, dragStart, moves>>
    /\ UNCHANGED <<openPc, container, promise, settleCalls, docListeners>>
    /\ UNCHANGED <<configVars, viewVars, saveVars>>

\* the image element fails to decode its src; no handler is registered
ImgOnerror ==
    /\ imgElement = "created"
    /\ imgElement' = "broken"
    /\ UNCHANGED <<openPc, container, promise, settleCalls, docListeners>>
    /\ UNCHANGED <<configVars, cropVars, viewVars, saveVars>>

(***************************************************************************)
(* setupCropInteraction: the mouse handlers.                               *)
(***************************************************************************)
\* mousedown on a resize handle (stopPropagation: the overlay handler does not run)
MouseDownHandle(handle, e) ==
    /\ WrapperInDocument
    /\ isResizing' = TRUE
    /\ resizeHandle' = handle
    /\ dragStart' = e
    /\ UNCHANGED <<crop, isFixedAspect, isDragging, moves, borderRadius>>
    /\ UNCHANGED <<configVars, sessionVars, viewVars, saveVars>>

\* mousedown on the overlay body
MouseDownOverlay(e) ==
    /\ WrapperInDocument
    /\ IF isResizing
       THEN UNCHANGED <<isDragging, dragStart>>
       ELSE /\ isDragging' = TRUE
            /\ dragStart' = [x |-> e.x - crop.x, y |-> e.y - crop.y]
    /\ UNCHANGED <<crop, isFixedAspect, isResizing, resizeHandle, moves, borderRadius>>
    /\ UNCHANGED <<configVars, sessionVars, viewVars, saveVars>>

\* handleResize returns early without an image or a wrapper in the document
ResizeRuns == imgElement # "null" /\ WrapperInDocument

\* mousemove on the document
MouseMove(e) ==
    /\ imgElement # "null"
    /\ IF isDragging
       THEN /\ moves < MaxMoves
            /\ moves' = moves + 1
            /\ UNCHANGED dragStart
            /\ borderRadius' = updateCropOverlay(isFixedAspect)
            /\ crop' = handleDrag(e)
       ELSE IF isResizing
       THEN /\ moves < MaxMoves
            /\ moves' = moves + 1
            /\ dragStart' = IF ResizeRuns THEN e ELSE dragStart
            /\ borderRadius' = updateCropOverlay(isFixedAspect)
            /\ crop' = handleResize(e)
       ELSE UNCHANGED <<crop, dragStart, moves, borderRadius>>
    /\ UNCHANGED <<isFixedAspect, isDragging, isResizing, resizeHandle>>
    /\ UNCHANGED <<configVars, sessionVars, viewVars, saveVars>>

\* mouseup that ends a drag only
MouseUpEndsDragOnly ==
    /\ imgElement # "null"
    /\ isDragging' = FALSE
    /\ UNCHANGED <<crop, isFixedAspect, isResizing, resizeHandle, dragStart, moves, borderRadius>>
    /\ UNCHANGED <<configVars, sessionVars, viewVars, saveVars>>

\* mouseup on the document
MouseUp ==
    /\ imgElement # "null"
    /\ isDragging' = FALSE
    /\ isResizing' = FALSE
    /\ resizeHandle' = ""
    /\ UNCHANGED <<crop, isFixedAspect, dragStart, moves, borderRadius>>
    /\ UNCHANGED <<configVars, sessionVars, viewVars, saveVars>>

\* aspectBtn.onclick that only flips the lock
ToggleAspectKeepsCrop ==
    /\ container = "attached"
    /\ isFixedAspect' = ~isFixedAspect
    /\ UNCHANGED <<crop, isDragging, isResizing, resizeHandle, dragStart, moves, borderRadius>>
    /\ UNCHANGED <<configVars, sessionVars, viewVars, saveVars>>

\* aspectBtn.onclick
ToggleAspect ==
    /\ container = "attached"
    /\ isFixedAspect' = ~isFixedAspect
    /\ crop' = IF ~isFixedAspect /\ imgElement # "null"
               THEN initializeCrop(imgElement) ELSE crop
    /\ borderRadius' = IF ~isFixedAspect /\ imgElement # "null"
                       THEN updateCropOverlay(TRUE) ELSE borderRadius
    /\ UNCHANGED <<isDragging, isResizing, resizeHandle, dragStart, moves>>
    /\ UNCHANGED <<configVars, sessionVars, viewVars, saveVars>>

(***************************************************************************)
(* handleSave and the Cancel / close / Save buttons.                       *)
(***************************************************************************)
\* lines 887-907: the crop rectangle in natural pixels
NaturalCrop(c, rect, inDocument, g) ==
    LET imgOffsetX == IF inDocument THEN rect.left ELSE 0
        imgOffsetY == IF inDocument THEN rect.top ELSE 0
        scaleX == Frac(g.naturalWidth, g.width)
        scaleY == Frac(g.naturalHeight, g.height)
    IN  [x      |-> FMul(FInt(c.x - imgOffsetX), scaleX),
         y      |-> FMul(FInt(c.y - imgOffsetY), scaleY),
         width  |-> FMul(FInt(c.width), scaleX),
         height |-> FMul(FInt(c.height), scaleY)]

\* OutputSize that always scales the longer side to maxSize
OutputSizeAlwaysScaled(cropWidth, cropHeight, maxSize) ==
    LET scaleFactor == FMin(FDiv(FInt(maxSize), cropWidth),
                            FDiv(FInt(maxSize), cropHeight))
    IN  [width  |-> FMul(cropWidth, scaleFactor),
         height |-> FMul(cropHeight, scaleFactor)]

\* OutputSize that clamps each side to maxSize on its own
OutputSizePerAxis(cropWidth, cropHeight, maxSize) ==
    [width  |-> FMin(cropWidth, FInt(maxSize)),
     height |-> FMin(cropHeight, FInt(maxSize))]

\* lines 909-918: outWidth / outHeight
OutputSize(cropWidth, cropHeight, maxSize) ==
    IF FGt(cropWidth, FInt(maxSize)) \/ FGt(cropHeight, FInt(maxSize))
    THEN LET scaleFactor == FMin(FDiv(FInt(maxSize), cropWidth),
                                 FDiv(FInt(maxSize), cropHeight))
         IN  [width  |-> FMul(cropWidth, scaleFactor),
              height |-> FMul(cropHeight, scaleFactor)]
    ELSE [width |-> cropWidth, height |-> cropHeight]

\* close() that leaves the modal in the document
closeKeepsModal == container

\* this.close()
close == IF container = "attached" THEN "detached" ELSE container

\* cancelBtn.onclick
CancelClick ==
    /\ container = "attached"
    /\ container' = close
    /\ promise' = Settle(promise, "rejected", "User cancelled")
    /\ settleCalls' = settleCalls + 1
    /\ UNCHANGED <<openPc, imgElement, docListeners>>
    /\ UNCHANGED <<configVars, cropVars, viewVars, saveVars>>

\* closeBtn.onclick (the onClose passed to createHeader)
CloseClick ==
    /\ container = "attached"
    /\ container' = close
    /\ promise' = Settle(promise, "rejected", "User cancelled")
    /\ settleCalls' = settleCalls + 1
    /\ UNCHANGED <<openPc, imgElement, docListeners>>
    /\ UNCHANGED <<configVars, cropVars, viewVars, saveVars>>

\* saveBtn.onclick up to the point where handleSave() fails or calls
\* canvas.toBlob; encodes: the encoder will produce a blob
SaveClick(encodes) ==
    /\ container = "attached"
    /\ saveClicks < MaxSaves
    /\ saveClicks' = saveClicks + 1
    /\ IF imgElement = "null"
       THEN /\ promise' = Settle(promise, "rejected", "Canvas or image not initialized")
            /\ settleCalls' = settleCalls + 1
            /\ UNCHANGED <<encodeQueue, canvas, outSize>>
       ELSE IF imgElement # "loaded"
       THEN \* naturalWidth / width is 0 / 0: every size is NaN, the canvas 0 x 0
            /\ canvas' = [width |-> 0, height |-> 0]
            /\ outSize' = [called |-> TRUE, nan |-> TRUE]
            /\ IF ~context2d
               THEN /\ promise' = Settle(promise, "rejected", "Could not get canvas context")
                    /\ settleCalls' = settleCalls + 1
                    /\ UNCHANGED encodeQueue
               ELSE IF imgElement = "broken"
               THEN \* drawImage throws on a broken image
                    /\ promise' = Settle(promise, "rejected", "InvalidStateError")
                    /\ settleCalls' = settleCalls + 1
                    /\ UNCHANGED encodeQueue
               ELSE /\ encodeQueue' = Append(encodeQueue, FALSE)
                    /\ UNCHANGED <<promise, settleCalls>>
       ELSE LET nat == NaturalCrop(crop, ImgRect(imgElement, transform.scale, transform.rotate),
                                   WrapperInDocument, geom)
                out == OutputSize(nat.width, nat.height, options.maxOutputSize)
            IN  /\ canvas' = [width |-> Trunc(out.width), height |-> Trunc(out.height)]
                /\ outSize' = [called |-> TRUE, nan |-> FALSE, source |-> nat,
                               width |-> out.width, height |-> out.height]
                /\ IF ~context2d
                   THEN /\ promise' = Settle(promise, "rejected", "Could not get canvas context")
                        /\ settleCalls' = settleCalls + 1
                        /\ UNCHANGED encodeQueue
                   ELSE /\ encodeQueue' = Append(encodeQueue, encodes)
                        /\ UNCHANGED <<promise, settleCalls>>
    /\ UNCHANGED <<openPc, container, imgElement, docListeners, results, lastResult>>
    /\ UNCHANGED <<configVars, cropVars, viewVars>>

\* CropResult whose File is a PNG file
CropResultAsPng(name, payload) ==
    [made       |-> TRUE,
     previewUrl |-> [blob |-> payload],
     file       |-> [name |-> <<name, ".png">>, type |-> "image/png", parts |-> <<payload>>],
     blob       |-> payload]

\* lines 950-959: the object URL, the File and the CropResult built from blob
\* number payload; the file name is name followed by ".jpg"
CropResult(name, payload) ==
    [made       |-> TRUE,
     previewUrl |-> [blob |-> payload],
     file       |-> [name |-> <<name, ".jpg">>, type |-> "image/jpeg", parts |-> <<payload>>],
     blob       |-> payload]

\* the toBlob callback that takes a missing blob for a blob
ToBlobCallbackIgnoresNull ==
    /\ encodeQueue # <<>>
    /\ encodeQueue' = Tail(encodeQueue)
    /\ results' = results + 1
    /\ lastResult' = CropResult(fileName, results + 1)
    /\ container' = close
    /\ promise' = Settle(promise, "resolved", "none")
    /\ settleCalls' = settleCalls + 1
    /\ UNCHANGED <<openPc, imgElement, docListeners, saveClicks, canvas, outSize>>
    /\ UNCHANGED <<configVars, cropVars, viewVars>>

\* the canvas.toBlob callback and the rest of saveBtn.onclick after the await
ToBlobCallback ==
    /\ encodeQueue # <<>>
    /\ encodeQueue' = Tail(encodeQueue)
    /\ IF Head(encodeQueue)
       THEN /\ results' = results + 1
            /\ lastResult' = CropResult(fileName, results + 1)
            /\ container' = close
            /\ promise' = Settle(promise, "resolved", "none")
       ELSE /\ promise' = Settle(promise, "rejected", "Failed to create blob")
            /\ UNCHANGED <<results, lastResult, container>>
    /\ settleCalls' = settleCalls + 1
    /\ UNCHANGED <<openPc, imgElement, docListeners, saveClicks, canvas, outSize>>
    /\ UNCHANGED <<configVars, cropVars, viewVars>>

(***************************************************************************)
(* The editor with its pointer gestures and the aspect lock.               *)
(***************************************************************************)
GestureLayouts == {Layout(120, 80, 20, 10, 240, 160)}
GestureArgs == {Arg(Ratio(1, 1), 0, FALSE), Arg(Ratio(2, 1), 0, FALSE)}

InitGesture ==
    \E layout \in GestureLayouts, arg \in GestureArgs : Constructed(layout, arg, TRUE)

NextGesture ==
    \/ Open
    \/ LoadImageResolved
    \/ ImgOnload
    \/ \E h \in Handles, e \in PointerPos : MouseDownHandle(h, e)
    \/ \E e \in PointerPos : MouseDownOverlay(e)
    \/ \E e \in PointerPos : MouseMove(e)
    \/ MouseUp
    \/ ToggleAspect

SpecGesture == InitGesture /\ [][NextGesture]_vars

(***************************************************************************)
(* The open() session with its Cancel, close and Save buttons.             *)
(***************************************************************************)
SessionLayouts == {Layout(120, 80, 20, 10, 240, 160), Layout(400, 200, 0, 0, 4000, 2000)}
SessionArgs == {Arg(Ratio(1, 1), 0, FALSE), Arg(Ratio(2, 1), 400, FALSE)}

\* base names passed to the constructor
FileNames == {"image", "photo.jpg"}

InitSession ==
    \E layout \in SessionLayouts, arg \in SessionArgs, hasContext \in BOOLEAN,
       name \in FileNames :
        ConstructedNamed(layout, arg, hasContext, name)

NextSession ==
    \/ Open
    \/ LoadImageResolved
    \/ LoadImageRejected
    \/ ImgOnload
    \/ ImgOnerror
    \/ CancelClick
    \/ CloseClick
    \/ \E encodes \in BOOLEAN : SaveClick(encodes)
    \/ ToBlobCallback

SpecSession == InitSession /\ [][NextSession]_vars

(***************************************************************************)
(* initializeCrop over many layouts and aspect ratios.                     *)
(***************************************************************************)
InitRatios == {Ratio(1, 1), Ratio(2, 1), Ratio(1, 2), Ratio(3, 2), Ratio(4, 3), Ratio(16, 9)}

\* the layouts on which initializeCrop computes in whole pixels for the ratio
ExactFor(layout, ratio) ==
    LET w0 == (layout.width * 9) \div 10
        h9 == (layout.height * 9) \div 10
    IN  /\ (layout.width * 9) % 10 = 0 /\ (layout.height * 9) % 10 = 0
        /\ (w0 * ratio.den) % ratio.num = 0
        /\ (h9 * ratio.num) % ratio.den = 0
        /\ (layout.width - w0) % 2 = 0 /\ (layout.height - h9) % 2 = 0
        /\ (layout.width - (h9 * ratio.num) \div ratio.den) % 2 = 0
        /\ (layout.height - (w0 * ratio.den) \div ratio.num) % 2 = 0

InitLayouts ==
    {Layout(w, h, ox, oy, 2 * w, 2 * h) :
        w \in {80, 120, 160, 320, 800}, h \in {80, 160, 320, 600}, ox \in {0, 20}, oy \in {0, 10}}

InitInitialize ==
    \E layout \in InitLayouts, ratio \in InitRatios :
        /\ ExactFor(layout, ratio)
        /\ Constructed(layout, Arg(ratio, 0, FALSE), TRUE)

NextInitialize ==
    \/ Open
    \/ LoadImageResolved
    \/ ImgOnload
    \/ ToggleAspect

SpecInitialize == InitInitialize /\ [][NextInitialize]_vars

(***************************************************************************)
(* handleSave over many crop regions of a Ready session.                   *)
(***************************************************************************)
ExportLayouts ==
    {Layout(400, 200, 0, 0, 4000, 2000), Layout(300, 200, 10, 0, 1000, 700),
     Layout(120, 80, 20, 10, 240, 160)}
ExportMaxSizes == {0, 400, 1000}

\* free-form regions inside the image
ExportCrops(layout) ==
    {c \in [x : {0, 10, 20, 50}, y : {0, 10, 40}, width : {50, 90, 100, 150, 300},
            height : {50, 70, 100, 150}] :
           InBounds(c, [left |-> layout.offsetX, top |-> layout.offsetY,
                        width |-> layout.width, height |-> layout.height])}

\* a session in Ready with the aspect lock off, after the user's resizes
InitExport ==
    \E layout \in ExportLayouts, maxSize \in ExportMaxSizes :
        \E c \in ExportCrops(layout) :
            /\ geom = layout
            /\ context2d = TRUE
            /\ options = ResolveOptions(Arg(Ratio(1, 1), maxSize, FALSE))
            /\ fileName = "image"
            /\ openPc = "done"
            /\ container = "attached"
            /\ imgElement = "loaded"
            /\ crop = c
            /\ scale = 10
            /\ rotate = 0
            /\ transform = [scale |-> 10, rotate |-> 0]
            /\ isFixedAspect = FALSE
            /\ isDragging = FALSE
            /\ isResizing = FALSE
            /\ resizeHandle = ""
            /\ dragStart = [x |-> 0, y |-> 0]
            /\ moves = 0
            /\ borderRadius = "0"
            /\ promise = [state |-> "pending", error |-> "none"]
            /\ settleCalls = 0
            /\ docListeners = 2
            /\ saveClicks = 0
            /\ encodeQueue = <<>>
            /\ canvas = [width |-> 0, height |-> 0]
            /\ outSize = [called |-> FALSE]
            /\ results = 0
            /\ lastResult = NoResult

NextExport ==
    \/ \E encodes \in BOOLEAN : SaveClick(encodes)
    \/ ToBlobCallback

SpecExport == InitExport /\ [][NextExport]_vars

(***************************************************************************)
(* Properties of the crop region.                                          *)
(***************************************************************************)
\* |width / height - num / den| is below 1% of num / den
AspectHolds(c, num, den) ==
    LET diff == c.width * den - c.height * num
    IN  (IF diff < 0 THEN -diff ELSE diff) * 100 < c.height * num

\* a mousemove that ran handleResize has just been handled
ResizeStep == moves' # moves /\ isResizing /\ ~isDragging

\* C1: once the region is initialized, after any sequence of drags and resizes
\* the crop region lies inside the image box: x >= offsetX, y >= offsetY,
\* x + width <= offsetX + displayWidth, y + height <= offsetY + displayHeight.
C1_BoundsInvariant ==
    imgElement = "loaded" => InBounds(crop, ImgRect("loaded", transform.scale, transform.rotate))

\* C2: while the aspect lock is on with ratio r, width / height equals r after
\* every operation (initialize, move, resize with any handle), also when the
\* minimum-size clamp or the image-bounds clamp engages.
C2_AspectInvariant ==
    (imgElement = "loaded" /\ isFixedAspect)
        => AspectHolds(crop, options.aspectNum, options.aspectDen)

\* C3: after any resize step, with any handle, any pointer delta and either
\* aspect-lock setting, width >= 50 and height >= 50.
C3_MinimumSize ==
    [][ResizeStep => (crop'.width >= 50 /\ crop'.height >= 50)]_vars

\* a resize has pushed both sides of an initialized region onto the minimum
C3_Witness ==
    /\ imgElement = "loaded"
    /\ isResizing /\ ~isDragging /\ moves > 0
    /\ crop.width = 50 /\ crop.height = 50

(***************************************************************************)
(* Properties of the session.                                              *)
(***************************************************************************)
UserCancelled == [state |-> "rejected", error |-> "User cancelled"]

\* Loading or Ready: no outcome yet and no export started
BeforeSaving == promise.state = "pending" /\ encodeQueue = <<>>

\* C4: a click on Cancel or on the header close button before Saving begins
\* rejects the open() promise with 'User cancelled' and removes the modal;
\* from then on no export starts and no CropResult is constructed; and the
\* promise gets the error 'User cancelled' from these two buttons only.
C4_CancelOutcome ==
    /\ [][((CancelClick \/ CloseClick) /\ BeforeSaving)
            => (promise' = UserCancelled /\ container' = "detached" /\ results' = 0)]_vars
    /\ [][(promise = UserCancelled /\ encodeQueue = <<>> /\ results = 0)
            => (encodeQueue' = <<>> /\ results' = 0 /\ promise' = promise)]_vars
    /\ [][(promise # UserCancelled /\ promise' = UserCancelled)
            => (CancelClick \/ CloseClick)]_vars

\* the session was cancelled in Ready, before any Save click
C4_Witness ==
    /\ promise = UserCancelled
    /\ imgElement = "loaded"
    /\ container = "detached"
    /\ saveClicks = 0 /\ results = 0

\* C5: each session has exactly one terminal transition: once the promise is
\* settled no further resolve or reject is attempted, and at most one
\* CropResult is produced.
C5_ExactlyOnce == settleCalls <= 1 /\ results <= 1

\* C6: whenever the session is Resolved or Rejected, the modal has been
\* removed from the document.
C6_Teardown == promise.state # "pending" => container = "detached"

\* C7: when the session ends Rejected, no CropResult (blob, File, object URL)
\* has been constructed for it.
C7_NoArtifactOnRejection == promise.state = "rejected" => results = 0

(***************************************************************************)
(* Properties of the export size and of the initial region.                *)
(***************************************************************************)
\* handleSave has computed sizes for a loaded image
Exported == outSize.called /\ ~outSize.nan

FLe(p, q) == ~FGt(p, q)
MaxFrac == FInt(options.maxOutputSize)

\* C8: when the natural-space crop width and height are both <= maxOutputSize,
\* the output width and height equal them exactly.
C8_NoUpscale ==
    (Exported /\ FLe(outSize.source.width, MaxFrac) /\ FLe(outSize.source.height, MaxFrac))
        => (outSize.width = outSize.source.width /\ outSize.height = outSize.source.height)

\* a crop of 180 x 100 natural pixels exported as it is
C8_Witness ==
    /\ Exported
    /\ outSize.source.width = FInt(180) /\ outSize.source.height = FInt(100)
    /\ outSize.width = FInt(180) /\ outSize.height = FInt(100)

\* C9: when the natural-space crop width or height exceeds maxOutputSize, both
\* output sizes are <= maxOutputSize, the larger one equals maxOutputSize and
\* outW * cropH = outH * cropW; 3000 x 1500 with maxOutputSize 1200 gives
\* 1200 x 600.
C9_Downscale ==
    (Exported /\ (FGt(outSize.source.width, MaxFrac) \/ FGt(outSize.source.height, MaxFrac)))
        => /\ FLe(outSize.width, MaxFrac) /\ FLe(outSize.height, MaxFrac)
           /\ outSize.width = MaxFrac \/ outSize.height = MaxFrac
           /\ FMul(outSize.width, outSize.source.height)
                = FMul(outSize.height, outSize.source.width)
           /\ (/\ outSize.source.width = FInt(3000)
               /\ outSize.source.height = FInt(1500)
               /\ options.maxOutputSize = 1200)
                => (outSize.width = FInt(1200) /\ outSize.height = FInt(600))

\* the crop of 3000 x 1500 natural pixels exported as 1200 x 600
C9_Witness ==
    /\ Exported
    /\ outSize.source.width = FInt(3000) /\ outSize.source.height = FInt(1500)
    /\ options.maxOutputSize = 1200
    /\ outSize.width = FInt(1200) /\ outSize.height = FInt(600)

\* the 1600 x 1200 image laid out at 800 x 600 with no offset, ratio 1, lock on
ExampleLayout ==
    /\ geom = Layout(800, 600, 0, 0, 1600, 1200)
    /\ options.aspectNum = 1 /\ options.aspectDen = 1
    /\ imgElement = "loaded" /\ isFixedAspect

\* C10 as stated: for that image initialization yields a 720 x 720 region at (40, 40).
C10_Original ==
    ExampleLayout => crop = [x |-> 40, y |-> 40, width |-> 720, height |-> 720]

\* C10 as amended: for that image initialization yields a 540 x 540 region at
\* (130, 30), the square of 90% of the height centred in the image.
C10_CenteredInit ==
    ExampleLayout => crop = [x |-> 130, y |-> 30, width |-> 540, height |-> 540]

C10_Witness ==
    ExampleLayout /\ crop = [x |-> 130, y |-> 30, width |-> 540, height |-> 540]


(***************************************************************************)
(* The editor constructed with aspectRatio: undefined, the lock button     *)
(* left alone.                                                             *)
(***************************************************************************)
InitFreeForm ==
    \E layout \in GestureLayouts : Constructed(layout, Arg(NoRatio, 0, FALSE), TRUE)

NextFreeForm ==
    \/ Open
    \/ LoadImageResolved
    \/ ImgOnload
    \/ \E h \in Handles, e \in PointerPos : MouseDownHandle(h, e)
    \/ \E e \in PointerPos : MouseDownOverlay(e)
    \/ \E e \in PointerPos : MouseMove(e)
    \/ MouseUp

SpecFreeForm == InitFreeForm /\ [][NextFreeForm]_vars

\* C11: in a session constructed with aspectRatio: undefined the resizes are
\* free-form: a resize by the east handle of the initialized region changes
\* its width only, it does not set the height to the width over a ratio.
C11_FreeForm ==
    [][ResizeStep /\ imgElement = "loaded" /\ resizeHandle = "e"
           => crop'.height = crop.height]_vars

(***************************************************************************)
(* The zoom buttons, the zoom slider and the rotate button.  this.scale    *)
(* is counted in tenths.                                                   *)
(***************************************************************************)
\* adjustScale without the clamp
adjustScaleUnclamped(delta) == scale + delta

\* this.scale after adjustScale(delta)
adjustScale(delta) == Max(5, Min(30, scale + delta))

\* imgElement.style.transform after updateImageTransform() with scale s, rotation r
updateImageTransform(s, r) ==
    IF imgElement = "null" THEN transform ELSE [scale |-> s, rotate |-> r]

\* the values the range input can take: min 0.5, max 3, step 0.1
SliderValues == 5..30

\* zoomInBtn.onclick
ZoomIn ==
    /\ container = "attached"
    /\ scale' = adjustScale(1)
    /\ transform' = updateImageTransform(adjustScale(1), rotate)
    /\ UNCHANGED rotate
    /\ UNCHANGED <<configVars, sessionVars, cropVars, saveVars>>

\* zoomOutBtn.onclick
ZoomOut ==
    /\ container = "attached"
    /\ scale' = adjustScale(-1)
    /\ transform' = updateImageTransform(adjustScale(-1), rotate)
    /\ UNCHANGED rotate
    /\ UNCHANGED <<configVars, sessionVars, cropVars, saveVars>>

\* slider.oninput with the slider at value
SliderInput(value) ==
    /\ container = "attached"
    /\ scale' = value
    /\ transform' = updateImageTransform(value, rotate)
    /\ UNCHANGED rotate
    /\ UNCHANGED <<configVars, sessionVars, cropVars, saveVars>>

\* rotateBtn.onclick: rotateImage()
RotateImage ==
    /\ container = "attached"
    /\ rotate' = (rotate + 90) % 360
    /\ transform' = updateImageTransform(scale, (rotate + 90) % 360)
    /\ UNCHANGED scale
    /\ UNCHANGED <<configVars, sessionVars, cropVars, saveVars>>

TransformLayouts == {Layout(400, 200, 0, 0, 800, 400)}

InitTransform ==
    \E layout \in TransformLayouts : Constructed(layout, Arg(Ratio(1, 1), 0, FALSE), TRUE)

NextTransform ==
    \/ Open
    \/ LoadImageResolved
    \/ ImgOnload
    \/ ZoomIn
    \/ ZoomOut
    \/ \E value \in SliderValues : SliderInput(value)
    \/ RotateImage

SpecTransform == InitTransform /\ [][NextTransform]_vars

\* C12: under zoom in, zoom out, slider input and rotate, the scale stays in
\* 0.5 .. 3 and the rotation in {0, 90, 180, 270}; a zoom step at a limit
\* leaves the scale at the limit, and the rotation after 270 is 0 again, so
\* four rotations return to the start.
C12_TransformRange ==
    /\ [](scale \in 5..30 /\ rotate \in {0, 90, 180, 270})
    /\ [][ZoomIn /\ scale = 30 => scale' = 30]_vars
    /\ [][ZoomOut /\ scale = 5 => scale' = 5]_vars
    /\ [][RotateImage => rotate' = IF rotate = 270 THEN 0 ELSE rotate + 90]_vars

C12_Witness == scale = 30 /\ rotate = 270 /\ transform = [scale |-> 30, rotate |-> 270]

(***************************************************************************)
(* Save after zooming and rotating the preview.                            *)
(***************************************************************************)
\* slider positions tried before Save
ZoomExportValues == {5, 10, 20, 30}

InitZoomExport ==
    \E layout \in TransformLayouts : Constructed(layout, Arg(Ratio(1, 1), 0, FALSE), TRUE)

NextZoomExport ==
    \/ Open
    \/ LoadImageResolved
    \/ ImgOnload
    \/ \E value \in ZoomExportValues : SliderInput(value)
    \/ RotateImage
    \/ SaveClick(TRUE)
    \/ ToBlobCallback

SpecZoomExport == InitZoomExport /\ [][NextZoomExport]_vars

\* the source rectangle and output size handleSave computes for the region c
\* of a session that differs only in having scale 1 and rotation 0
UntransformedExport(c) ==
    LET nat == NaturalCrop(c, ImgRect("loaded", 10, 0), TRUE, geom)
        out == OutputSize(nat.width, nat.height, options.maxOutputSize)
    IN  [source |-> nat, width |-> out.width, height |-> out.height]

\* C13: the export ignores zoom and rotation: the natural-space source
\* rectangle and the output dimensions computed by a save are those a session
\* with the same geometry and region computes at scale 1 and rotation 0.
C13_ExportIgnoresTransform ==
    Exported =>
        [source |-> outSize.source, width |-> outSize.width, height |-> outSize.height]
            = UntransformedExport(crop)

\* the source failed to load: loadImage() rejected, or the image element could
\* not decode the data URL
LoadFailed == openPc = "caught" \/ imgElement = "broken"

\* C14: whenever the source fails to load or decode while the modal is open
\* (nobody has cancelled), the open() promise is rejected with an error other
\* than 'User cancelled'.
C14_LoadFailureRejects ==
    LoadFailed /\ container = "attached"
        => promise.state = "rejected" /\ promise.error # "User cancelled"

\* a step in which handleSave() fails for want of a 2D context or of a blob
ExportFails ==
    \/ ToBlobCallback /\ ~Head(encodeQueue)
    \/ (\E encodes \in BOOLEAN : SaveClick(encodes)) /\ imgElement # "null" /\ ~context2d

ExportErrors == {"Could not get canvas context", "Failed to create blob"}

\* C15: when a save fails because the 2D context cannot be obtained or the
\* encoder yields no blob, that save constructs no CropResult and does not
\* resolve the promise, and a promise that was still pending is rejected with
\* the export error, not with 'User cancelled'.
C15_ExportFailureRejects ==
    [][ExportFails =>
           /\ results' = results /\ lastResult' = lastResult
           /\ promise'.state = "resolved" => promise.state = "resolved"
           /\ promise.state = "pending" =>
                  promise'.state = "rejected" /\ promise'.error \in ExportErrors]_vars

C15_Witness ==
    /\ promise = [state |-> "rejected", error |-> "Failed to create blob"]
    /\ imgElement = "loaded"
    /\ results = 0
    /\ container = "attached"

\* C16: at most one gesture is active: under any sequence of mousedown on the
\* region or a handle, mousemove and mouseup, isDragging and isResizing are
\* never both true.
C16_SingleGesture == ~(isDragging /\ isResizing)

\* C17: once the session has ended (close() has removed the modal), the
\* mousemove and mouseup listeners it registered on document are no longer
\* registered.
C17_ListenersRemoved == container = "detached" => docListeners = 0

\* C18: no pointer gesture changes the region before the image has decoded
\* and the region has been initialized: a mousemove that arrives while the
\* image has not loaded leaves this.crop as it is.
C18_NoGestureBeforeReady ==
    [][(\E e \in PointerPos : MouseMove(e)) /\ imgElement # "loaded"
           => crop' = crop]_vars

\* C19: the CropResult of a successful save holds a file named fileName
\* followed by ".jpg", of type image/jpeg, and its file, its blob and its
\* previewUrl are all made from the one blob that save's encoder delivered.
C19_OutputNaming ==
    results > 0 =>
        /\ lastResult.made
        /\ lastResult.file.name = <<fileName, ".jpg">>
        /\ lastResult.file.type = "image/jpeg"
        /\ lastResult.blob = results
        /\ lastResult.file.parts = <<lastResult.blob>>
        /\ lastResult.previewUrl.blob = lastResult.blob

C19_Witness ==
    /\ promise.state = "resolved"
    /\ fileName = "photo.jpg"
    /\ lastResult.made
    /\ lastResult.file.name = <<"photo.jpg", ".jpg">>

\* the box the loaded image is laid out in, before any preview transform
LayoutBox ==
    [left |-> geom.offsetX, top |-> geom.offsetY,
     width |-> geom.width, height |-> geom.height]

\* C20: pressing the lock button on a loaded image: switching the lock on
\* replaces the region with the one initialization computes for the image's
\* box and the configured ratio, whatever the region was; switching it off
\* leaves x, y, width and height unchanged.
C20_LockToggle ==
    [][ToggleAspect /\ imgElement = "loaded" =>
           crop' = IF isFixedAspect
                   THEN crop
                   ELSE InitialCrop(LayoutBox, options.aspectNum, options.aspectDen)]_vars

\* the lock has been switched off and a free-form resize has left a region of
\* another ratio, which the next press of the lock button has to discard
C20_Witness ==
    /\ imgElement = "loaded"
    /\ ~isFixedAspect
    /\ ~isDragging /\ ~isResizing
    /\ ~AspectHolds(crop, options.aspectNum, options.aspectDen)
    /\ crop # InitialCrop(LayoutBox, options.aspectNum, options.aspectDen)

\* a step that runs initializeCrop() on a loaded image: the load event, or
\* the lock button switching the lock on
InitializeStep ==
    \/ ImgOnload
    \/ ToggleAspect /\ ~isFixedAspect /\ imgElement = "loaded"

\* C21: initialization yields a region of at most 90% of the displayed width
\* and height, one of the two at its 90% limit, with width = r * height,
\* centred in the image box and so inside it; the region is a function of the
\* geometry and r alone.
C21_Initialization ==
    [][InitializeStep =>
           /\ crop'.width * 10 <= geom.width * 9
           /\ crop'.height * 10 <= geom.height * 9
           /\ crop'.width * 10 = geom.width * 9 \/ crop'.height * 10 = geom.height * 9
           /\ crop'.width * options.aspectDen = crop'.height * options.aspectNum
           /\ crop'.x - geom.offsetX = geom.offsetX + geom.width - (crop'.x + crop'.width)
           /\ crop'.y - geom.offsetY = geom.offsetY + geom.height - (crop'.y + crop'.height)
           /\ InBounds(crop', LayoutBox)
           /\ crop' = InitialCrop(LayoutBox, options.aspectNum, options.aspectDen)]_vars

\* an initialized region limited by the height of an image that is offset in
\* its wrapper
C21_Witness ==
    /\ imgElement = "loaded"
    /\ geom.offsetX > 0 /\ geom.offsetY > 0
    /\ crop.height * 10 = geom.height * 9
    /\ crop.width * 10 < geom.width * 9
    /\ crop.width > 0

\* C22: the region invariants hold from creation: right after initialization
\* and after a re-lock, for every geometry and ratio, width >= 50 and
\* height >= 50 and the region lies inside the image box.
C22_InvariantsFromCreation ==
    imgElement = "loaded" =>
        /\ crop.width >= MinCropSize
        /\ crop.height >= MinCropSize
        /\ InBounds(crop, LayoutBox)

\* v limited to lo .. hi
Clamped(v, lo, hi) == IF v < lo THEN lo ELSE IF v > hi THEN hi ELSE v

\* the region c is no larger than the box rect
Fits(c, rect) == c.width <= rect.width /\ c.height <= rect.height

\* the controller is in a drag and in no resize
Dragging == isDragging /\ ~isResizing

\* C23: a mousedown on the body of the region captures the pointer and the
\* position of the region; during the drag every mousemove puts the region at
\* the captured position plus the pointer's displacement since the capture,
\* clamped on each axis to the image box (for a region no larger than the
\* box, so that the box has room for it), and leaves width, height and the
\* captured anchor unchanged, so the position does not depend on the moves
\* in between.
C23_Move ==
    /\ [][\A e \in PointerPos :
              ~isDragging /\ ~isResizing /\ MouseDownOverlay(e)
                  => dragStart' = [x |-> e.x - crop.x, y |-> e.y - crop.y]]_vars
    /\ [][\A e \in PointerPos :
              Dragging /\ imgElement = "loaded" /\ Fits(crop, LayoutBox) /\ MouseMove(e) =>
                  /\ crop'.x = Clamped(e.x - dragStart.x, geom.offsetX,
                                       geom.offsetX + geom.width - crop.width)
                  /\ crop'.y = Clamped(e.y - dragStart.y, geom.offsetY,
                                       geom.offsetY + geom.height - crop.height)
                  /\ crop'.width = crop.width /\ crop'.height = crop.height
                  /\ dragStart' = dragStart]_vars

\* a drag whose second move has pushed the region against the left edge
C23_Witness ==
    /\ imgElement = "loaded"
    /\ Dragging
    /\ moves = MaxMoves
    /\ crop.x = geom.offsetX
    /\ crop.width > 0
    /\ Fits(crop, LayoutBox)

\* a mousedown on the body of the region or on one of its handles
MouseDownStep ==
    \/ \E h \in Handles, e \in PointerPos : MouseDownHandle(h, e)
    \/ \E e \in PointerPos : MouseDownOverlay(e)

\* C24: a mousedown on the body or on a handle that arrives while a drag or a
\* resize is active is ignored: the kind of the gesture, the active handle
\* and the anchor dragStart stay as they are.
C24_PointerDownIgnored ==
    [][(isDragging \/ isResizing) /\ MouseDownStep
           => UNCHANGED <<isDragging, isResizing, resizeHandle, dragStart>>]_vars

\* no gesture is active
Idle == ~isDragging /\ ~isResizing

\* C25: mouseup always returns the controller to Idle with the handle
\* cleared; in Idle a mousemove never changes the region; from Idle a
\* mousedown on the body enters Dragging and a mousedown on a handle enters
\* Resizing with that handle; so a pointer event changes the region only as a
\* mousemove inside a gesture: mousedown and mouseup leave it as it is.
C25_GestureStateMachine ==
    /\ [][MouseUp => Idle' /\ resizeHandle' = ""]_vars
    /\ [][Idle /\ (\E e \in PointerPos : MouseMove(e)) => crop' = crop]_vars
    /\ [][Idle => \A e \in PointerPos :
                      MouseDownOverlay(e) => isDragging' /\ ~isResizing']_vars
    /\ [][Idle => \A h \in Handles, e \in PointerPos :
                      MouseDownHandle(h, e)
                          => isResizing' /\ ~isDragging' /\ resizeHandle' = h]_vars
    /\ [][crop' # crop => ~MouseDownStep /\ ~MouseUp]_vars

\* a resize that changed the region has been ended by a mouseup
C25_Witness ==
    /\ imgElement = "loaded"
    /\ Idle /\ resizeHandle = ""
    /\ moves > 0
    /\ isFixedAspect
    /\ dragStart.x >= 0 /\ dragStart.y >= 0
    /\ crop # InitialCrop(LayoutBox, options.aspectNum, options.aspectDen)

\* C26: during a resize of a loaded image the edge opposite the dragged
\* handle stays where it is: handle w keeps x + width, e keeps x, n keeps
\* y + height, s keeps y, a corner keeps both, also when the minimum-size or
\* the image-bounds clamp engages.
C26_AnchoredEdge ==
    [][ResizeStep /\ imgElement = "loaded" =>
           /\ Includes(resizeHandle, "w") => crop'.x + crop'.width = crop.x + crop.width
           /\ Includes(resizeHandle, "e") => crop'.x = crop.x
           /\ Includes(resizeHandle, "n") => crop'.y + crop'.height = crop.y + crop.height
           /\ Includes(resizeHandle, "s") => crop'.y = crop.y]_vars

(***************************************************************************)
(* Resizes of an upright region (aspectRatio 1/2) with the lock switched   *)
(* on and off.                                                             *)
(***************************************************************************)
InitFreeResize ==
    \E layout \in GestureLayouts : Constructed(layout, Arg(Ratio(1, 2), 0, FALSE), TRUE)

NextFreeResize ==
    \/ Open
    \/ LoadImageResolved
    \/ ImgOnload
    \/ ToggleAspect
    \/ \E h \in Handles, e \in PointerPos : MouseDownHandle(h, e)
    \/ \E e \in PointerPos : MouseMove(e)
    \/ MouseUp

SpecFreeResize == InitFreeResize /\ [][NextFreeResize]_vars

\* the change of a coordinate that handle gives for the pointer delta d:
\* east / south grow the size, west / north move the position and shrink the size
SizeDelta(handle, far, near, d) ==
    IF Includes(handle, far) THEN d ELSE IF Includes(handle, near) THEN -d ELSE 0
PosDelta(handle, far, near, d) ==
    IF ~Includes(handle, far) /\ Includes(handle, near) THEN d ELSE 0

\* C27: with the lock off and the region inside the image, a resize by an
\* edge handle changes its own axis only (e / w: x and width, n / s: y and
\* height), and while the moved region stays inside the image with both sides
\* at least 50 every handle changes its axes by exactly the pointer delta.
C27_UnlockedResizeAxes ==
    [][\A e \in PointerPos :
           (MouseMove(e) /\ ResizeStep /\ imgElement = "loaded"
                /\ ~isFixedAspect /\ InBounds(crop, LayoutBox)) =>
               LET dx == e.x - dragStart.x
                   dy == e.y - dragStart.y
                   raw == [x      |-> crop.x + PosDelta(resizeHandle, "e", "w", dx),
                           y      |-> crop.y + PosDelta(resizeHandle, "s", "n", dy),
                           width  |-> crop.width + SizeDelta(resizeHandle, "e", "w", dx),
                           height |-> crop.height + SizeDelta(resizeHandle, "s", "n", dy)]
               IN  /\ resizeHandle \in {"e", "w"}
                       => crop'.y = crop.y /\ crop'.height = crop.height
                   /\ resizeHandle \in {"n", "s"}
                       => crop'.x = crop.x /\ crop'.width = crop.width
                   /\ (InBounds(raw, LayoutBox) /\ raw.width >= MinCropSize
                           /\ raw.height >= MinCropSize) => crop' = raw]_vars

(***************************************************************************)
(* Resizes with the lock on, in an image large enough for moves that no    *)
(* clamp cuts short.                                                       *)
(***************************************************************************)
LockedResizeArgs == {Arg(Ratio(2, 1), 0, FALSE)}

InitLockedResize ==
    \E layout \in TransformLayouts, arg \in LockedResizeArgs : Constructed(layout, arg, TRUE)

NextLockedResize ==
    \/ Open
    \/ LoadImageResolved
    \/ ImgOnload
    \/ \E h \in Handles, e \in PointerPos : MouseDownHandle(h, e)
    \/ \E e \in PointerPos : MouseMove(e)
    \/ MouseUp

SpecLockedResize == InitLockedResize /\ [][NextLockedResize]_vars

\* no clamp of handleResize changes the rectangle r
Unclamped(r) ==
    InBounds(r, LayoutBox) /\ r.width >= MinCropSize /\ r.height >= MinCropSize

\* C28: with the lock on with ratio r, a handle that contains e or w (the
\* four corners included) drives by the width: the width follows the
\* horizontal pointer delta and the height is width / r whatever the
\* vertical delta; handles n and s drive by the height and the width is
\* height * r.  Stated for the moves whose result no clamp changes.
C28_AspectDriver ==
    [][\A e \in PointerPos :
           (ResizeStep /\ imgElement = "loaded" /\ isFixedAspect /\ MouseMove(e)) =>
               LET dx == e.x - dragStart.x
                   dy == e.y - dragStart.y
                   x  == crop.x + PosDelta(resizeHandle, "e", "w", dx)
                   y  == crop.y + PosDelta(resizeHandle, "s", "n", dy)
                   w  == crop.width + SizeDelta(resizeHandle, "e", "w", dx)
                   h  == crop.height + SizeDelta(resizeHandle, "s", "n", dy)
                   num == options.aspectNum
                   den == options.aspectDen
               IN  IF Includes(resizeHandle, "e") \/ Includes(resizeHandle, "w")
                   THEN Unclamped([x |-> x, y |-> y, width |-> w, height |-> (w * den) \div num])
                            => crop'.width = w /\ crop'.height * num = w * den
                   ELSE Unclamped([x |-> x, y |-> y, width |-> (h * num) \div den, height |-> h])
                            => crop'.height = h /\ crop'.width * den = h * num]_vars

\* a corner handle has shrunk a locked region and no clamp was involved
C28_Witness ==
    /\ imgElement = "loaded"
    /\ isFixedAspect /\ isResizing /\ ~isDragging
    /\ resizeHandle = "se"
    /\ moves = 1
    /\ dragStart = [x |-> 0, y |-> 40]
    /\ crop.width > MinCropSize /\ crop.height > MinCropSize
    /\ crop.width * 10 < geom.width * 9 /\ crop.height * 10 < geom.height * 9
    /\ crop.width * options.aspectDen = crop.height * options.aspectNum

\* C29: no resize drift: when the pointer moves away in a resize and returns
\* to the position of the mousedown, the region is again the region it was at
\* the mousedown, also when the move away ran into the minimum-size or the
\* image-bounds clamp.  Stated at every mousedown on a handle of a loaded
\* image, from Idle, for every position the pointer can visit in between.
C29_NoResizeDrift ==
    [][\A h \in Handles, e0 \in PointerPos :
           (Idle /\ imgElement = "loaded" /\ MouseDownHandle(h, e0)) =>
               \A e1 \in PointerPos :
                   ResizeAlong(crop', ImgRect("loaded", transform.scale, transform.rotate),
                               h, isFixedAspect, options.aspectNum, options.aspectDen,
                               e0, <<e1, e0>>) = crop']_vars

\* C30: export only from Ready: a Save click starts the export computation
\* (the coordinate mapping, the canvas sizing, the draw and the encode) only
\* when the image element has loaded; a Save click during Loading or before
\* the image has loaded starts no export and leaves the outcome of the
\* session as it was.
C30_ExportOnlyFromReady ==
    [][\A encodes \in BOOLEAN :
           (SaveClick(encodes) /\ imgElement # "loaded") =>
               /\ UNCHANGED <<encodeQueue, canvas, outSize>>
               /\ promise' = promise]_vars

(***************************************************************************)
(* Drags of the region after the preview has been zoomed or rotated.       *)
(***************************************************************************)
\* slider positions tried before a drag
ZoomDragValues == {5, 10, 20}

InitZoomDrag ==
    \E layout \in TransformLayouts : Constructed(layout, Arg(Ratio(1, 1), 0, FALSE), TRUE)

NextZoomDrag ==
    \/ Open
    \/ LoadImageResolved
    \/ ImgOnload
    \/ \E value \in ZoomDragValues : SliderInput(value)
    \/ RotateImage
    \/ \E e \in PointerPos : MouseDownOverlay(e)
    \/ \E e \in PointerPos : MouseMove(e)
    \/ MouseUp

SpecZoomDrag == InitZoomDrag /\ [][NextZoomDrag]_vars

\* a zoom-in, zoom-out, slider or rotate step
TransformStep ==
    \/ ZoomIn
    \/ ZoomOut
    \/ \E value \in SliderValues : SliderInput(value)
    \/ RotateImage

\* C31: zoom in, zoom out, slider input and rotate leave the region as it
\* is, and a later move is clamped to the box the image is laid out in,
\* without scale and rotation, whatever the current scale and rotation are.
C31_TransformLeavesRegion ==
    /\ [][TransformStep => crop' = crop]_vars
    /\ [][\A e \in PointerPos :
              Dragging /\ imgElement = "loaded" /\ Fits(crop, LayoutBox) /\ MouseMove(e) =>
                  /\ crop'.x = Clamped(e.x - dragStart.x, geom.offsetX,
                                       geom.offsetX + geom.width - crop.width)
                  /\ crop'.y = Clamped(e.y - dragStart.y, geom.offsetY,
                                       geom.offsetY + geom.height - crop.height)]_vars

\* close() has removed the modal: Cancel, the close button or a successful
\* save has ended the session
SessionEnded == container = "detached"

\* C32: no activity after the session has ended: the region and the
\* transform state are neither created nor changed; in particular, when
\* Cancel is clicked during Loading and the load completes afterwards, no
\* image content or overlay is built, no listener is registered and no
\* region is initialized.
C32_NoActivityAfterEnd ==
    [][SessionEnded =>
           UNCHANGED <<crop, scale, rotate, transform, imgElement, docListeners>>]_vars

\* the source rectangle handleSave would pass to drawImage in this state
SourceRect ==
    NaturalCrop(crop, ImgRect(imgElement, transform.scale, transform.rotate),
                WrapperInDocument, geom)

\* the sum of the fractions p and q
FAdd(p, q) == Frac(p.n * q.d + q.n * p.d, p.d * q.d)

\* C33: for every region reached through initialize, move, resize and the
\* aspect toggle, the source rectangle that a save computes in natural
\* pixels lies within [0, naturalWidth] x [0, naturalHeight] and has
\* positive width and height.
C33_SourceInsideImage ==
    imgElement = "loaded" =>
        /\ FLe(FInt(0), SourceRect.x)
        /\ FLe(FInt(0), SourceRect.y)
        /\ FLe(FAdd(SourceRect.x, SourceRect.width), FInt(geom.naturalWidth))
        /\ FLe(FAdd(SourceRect.y, SourceRect.height), FInt(geom.naturalHeight))
        /\ FGt(SourceRect.width, FInt(0))
        /\ FGt(SourceRect.height, FInt(0))

(***************************************************************************)
(* The circular preview of the overlay.                                    *)
(***************************************************************************)
CircularArgs ==
    {Arg(Ratio(1, 1), 0, TRUE), Arg(Ratio(1, 1), 0, FALSE), Arg(Ratio(2, 1), 0, TRUE)}

InitCircular ==
    \E layout \in GestureLayouts, arg \in CircularArgs : Constructed(layout, arg, TRUE)

NextCircular ==
    \/ Open
    \/ LoadImageResolved
    \/ ImgOnload
    \/ ToggleAspect
    \/ \E e \in PointerPos : MouseDownOverlay(e)
    \/ \E e \in PointerPos : MouseMove(e)
    \/ MouseUp

SpecCircular == InitCircular /\ [][NextCircular]_vars

\* C34: in every state after the region is initialized the overlay is drawn
\* circular (border radius 50%) exactly when circularCrop is set, the aspect
\* lock is on and the aspect ratio is 1, also right after the lock has been
\* switched off or on.
C34_CircularPreview ==
    imgElement = "loaded" =>
        (borderRadius = "50%"
            <=> (options.circularCrop /\ isFixedAspect /\ options.aspectNum = options.aspectDen))
====
